---- MODULE Spec2Model ----
(***************************************************************************)
(* A model of xize (src/src/main.rs): the paginated extent query session   *)
(* (Sv2Args / Sv2ItemIter), the extent classifier (IoctlSearchItem::parse),*)
(* the statistics records (ExtentStat / CompsizeStat) and the concurrent   *)
(* pipeline of main(): directory tasks, file tasks, workers and the        *)
(* ExtentMap actor that owns the deduplication set.                        *)
(*                                                                         *)
(* main.rs declares `mod btrfs { ... }` inline, so the program that is     *)
(* built is main.rs alone; src/src/btrfs.rs is an earlier revision of the  *)
(* same module and is not part of the build.                               *)
(***************************************************************************)
EXTENDS Integers, Sequences, FiniteSets, TLC

(***************************************************************************)
(* Program constants.                                                      *)
(***************************************************************************)
\* size_of::<IoctlSearchHeader>(): u64 * 3 + u32 * 2
HeaderSize == 32
\* size_of::<FileExtentItem>() (packed): 8 + 8 + 1 + 1 + 2 + 1 + 8 * 4
FileExtentItemSize == 53
EXTENT_INLINE_HEADER_SIZE == 21
BTRFS_FILE_EXTENT_INLINE == 0
BTRFS_FILE_EXTENT_REG == 1
BTRFS_FILE_EXTENT_PREALLOC == 2
\* Sv2Args::buf_size
BufSize == 65536
\* the page-termination threshold of call_ioctl
LowWater == 512
\* disk_bytenr & 0xfff, disk_bytenr >> 12
PageBytes == 4096
\* key.nr_items = u32::MAX asks for "as many items as fit".  TLC's integers
\* end at 2^31 - 1; every value above BufSize behaves the same in the model.
U32Max == 2147483647
\* bounded(16) of the file queue and of the dedup request channel
ChanCap == 16
\* the executor threads of Parallel::each(0..4, ..)
NThreads == 4

(***************************************************************************)
(* Bounds of the model.                                                    *)
(***************************************************************************)
\* pages of one simulated session and sessions on one buffer (SpecPage)
MaxPages == 3
MaxSessions == 2
\* full pages of the inode a session reads from the kernel (SpecKernel)
MaxFullPages == 2
\* largest amount in a field of a partial aggregate (SpecMerge)
MaxAmount == 2
\* workers of the pipeline (main spawns 12), directories of the tree, files
\* in the tree and extent records per file (Spec)
NWorkers == 2
NDirs == 2
MaxFiles == 2
MaxRecs == 2

\* record lengths within MaxLenDelta of 21 and of 53, type and compression
\* codes up to MaxCode, physical offsets in the first MaxUnits allocation units
\* (SpecParse)
MaxLenDelta == 1
MaxCode == 4
MaxUnits == 2

None == [none |-> TRUE]

(***************************************************************************)
(* Raw records: IoctlSearchHeader (offset, len) and FileExtentItem.        *)
(***************************************************************************)
MkItem(off, len, ty, comp, ram, bytenr, dnb, nb) ==
    [offset |-> off, len |-> len, type |-> ty, compression |-> comp,
     ram_bytes |-> ram, disk_bytenr |-> bytenr, disk_num_bytes |-> dnb,
     num_bytes |-> nb]

\* what a read of buffer bytes that the last page load did not write decodes to
ZeroItem == MkItem(0, 0, 0, 0, 0, 0, 0, 0)

(***************************************************************************)
(* ExtentStat, CompsizeStat and their merge.                               *)
(***************************************************************************)
ExtentStat(d, u, r) == [disk |-> d, uncomp |-> u, refd |-> r]

ExtentStatDefault == ExtentStat(0, 0, 0)

\* a slip in merge: disk grows by the uncompressed size of rhs
ExtentStat_merge_slip(self, rhs) ==
    [disk |-> self.disk + rhs.uncomp,
     uncomp |-> self.uncomp + rhs.uncomp,
     refd |-> self.refd + rhs.refd]

ExtentStat_merge(self, rhs) ==
    [disk |-> self.disk + rhs.disk,
     uncomp |-> self.uncomp + rhs.uncomp,
     refd |-> self.refd + rhs.refd]

CompsizeStatDefault ==
    [nfile |-> 0, ninline |-> 0, nref |-> 0, nextent |-> 0,
     prealloc |-> ExtentStatDefault,
     stat |-> [i \in 1..4 |-> ExtentStatDefault]]

\* a merge that loses the file count of its right operand
CompsizeStat_merge_nfile_lost(self, rhs) ==
    [nfile |-> self.nfile,
     ninline |-> self.ninline + rhs.ninline,
     nref |-> self.nref + rhs.nref,
     nextent |-> self.nextent + rhs.nextent,
     prealloc |-> ExtentStat_merge(self.prealloc, rhs.prealloc),
     stat |-> [i \in 1..4 |-> ExtentStat_merge(self.stat[i], rhs.stat[i])]]

CompsizeStat_merge(self, rhs) ==
    [nfile |-> self.nfile + rhs.nfile,
     ninline |-> self.ninline + rhs.ninline,
     nref |-> self.nref + rhs.nref,
     nextent |-> self.nextent + rhs.nextent,
     prealloc |-> ExtentStat_merge(self.prealloc, rhs.prealloc),
     stat |-> [i \in 1..4 |-> ExtentStat_merge(self.stat[i], rhs.stat[i])]]

(***************************************************************************)
(* The classifier.                                                         *)
(***************************************************************************)
\* a key that folds the type into the id: the Prealloc records of an extent
\* get another id than its Regular records
ExtentKey_typed(ty, key) ==
    [type |-> ty, key |-> IF ty = "Prealloc" THEN key + 2 ELSE key]

ExtentKey(ty, key) == [type |-> ty, key |-> key]

\* a decoder that takes an unknown code for no compression
Compression_from_usize_lenient(n) ==
    IF n = 1 THEN "Zlib"
    ELSE IF n = 2 THEN "Lzo"
    ELSE IF n = 3 THEN "Zstd"
    ELSE "None"

\* Compression::from_usize: the four known codes, a panic otherwise
Compression_from_usize(n) ==
    IF n = 0 THEN "None"
    ELSE IF n = 1 THEN "Zlib"
    ELSE IF n = 2 THEN "Lzo"
    ELSE IF n = 3 THEN "Zstd"
    ELSE "panic"

\* Compression::as_usize
Compression_as_usize(c) ==
    IF c = "None" THEN 0 ELSE IF c = "Zlib" THEN 1 ELSE IF c = "Lzo" THEN 2 ELSE 3

\* ExtentType::from_u8
ExtentType_from_u8(n) ==
    IF n = BTRFS_FILE_EXTENT_INLINE THEN "Inline"
    ELSE IF n = BTRFS_FILE_EXTENT_REG THEN "Regular"
    ELSE IF n = BTRFS_FILE_EXTENT_PREALLOC THEN "Prealloc"
    ELSE "panic"

ParseOk(key, comp, stat) == [res |-> "ok", key |-> key, comp |-> comp, stat |-> stat]

\* a parse without the 4k alignment check
parse_no_align(item) ==
    LET hlen == item.len
        ram_bytes == item.ram_bytes
        comp_type == Compression_from_usize(item.compression)
        extent_type == ExtentType_from_u8(item.type)
    IN  IF comp_type = "panic" THEN [res |-> "panic"]
        ELSE IF extent_type = "panic" THEN [res |-> "panic"]
        ELSE IF extent_type = "Inline" THEN
            IF hlen < EXTENT_INLINE_HEADER_SIZE THEN [res |-> "underflow"]
            ELSE ParseOk(ExtentKey(extent_type, 0), comp_type,
                         ExtentStat(hlen - EXTENT_INLINE_HEADER_SIZE, ram_bytes, ram_bytes))
        ELSE IF hlen # FileExtentItemSize THEN [res |-> "err"]
        ELSE IF item.disk_bytenr = 0 THEN
            ParseOk(ExtentKey(extent_type, 0), comp_type, ExtentStat(0, 0, 0))
        ELSE ParseOk(ExtentKey(extent_type, item.disk_bytenr \div PageBytes), comp_type,
                     ExtentStat(item.disk_num_bytes, ram_bytes, item.num_bytes))

\* a parse that takes refd of an extent from ram_bytes, as the Inline arm does
parse_refd_ram(item) ==
    LET hlen == item.len
        ram_bytes == item.ram_bytes
        comp_type == Compression_from_usize(item.compression)
        extent_type == ExtentType_from_u8(item.type)
    IN  IF comp_type = "panic" THEN [res |-> "panic"]
        ELSE IF extent_type = "panic" THEN [res |-> "panic"]
        ELSE IF extent_type = "Inline" THEN
            IF hlen < EXTENT_INLINE_HEADER_SIZE THEN [res |-> "underflow"]
            ELSE ParseOk(ExtentKey(extent_type, 0), comp_type,
                         ExtentStat(hlen - EXTENT_INLINE_HEADER_SIZE, ram_bytes, ram_bytes))
        ELSE IF hlen # FileExtentItemSize THEN [res |-> "err"]
        ELSE IF item.disk_bytenr = 0 THEN
            ParseOk(ExtentKey(extent_type, 0), comp_type, ExtentStat(0, 0, 0))
        ELSE IF item.disk_bytenr % PageBytes # 0 THEN [res |-> "err"]
        ELSE ParseOk(ExtentKey(extent_type, item.disk_bytenr \div PageBytes), comp_type,
                     ExtentStat(item.disk_num_bytes, ram_bytes, ram_bytes))

\* IoctlSearchItem::parse.  res is "ok", "err" (Err(errmsg)), "panic" (from_usize
\* or from_u8 panicked) or "underflow" (hlen - 21 below zero: a panic in a build
\* with overflow checks, a wrapped u64 otherwise).
parse(item) ==
    LET hlen == item.len
        ram_bytes == item.ram_bytes
        comp_type == Compression_from_usize(item.compression)
        extent_type == ExtentType_from_u8(item.type)
    IN  IF comp_type = "panic" THEN [res |-> "panic"]
        ELSE IF extent_type = "panic" THEN [res |-> "panic"]
        ELSE IF extent_type = "Inline" THEN
            IF hlen < EXTENT_INLINE_HEADER_SIZE THEN [res |-> "underflow"]
            ELSE ParseOk(ExtentKey(extent_type, 0), comp_type,
                         ExtentStat(hlen - EXTENT_INLINE_HEADER_SIZE, ram_bytes, ram_bytes))
        ELSE IF hlen # FileExtentItemSize THEN [res |-> "err"]
        ELSE IF item.disk_bytenr = 0 THEN
            \* is hole
            ParseOk(ExtentKey(extent_type, 0), comp_type, ExtentStat(0, 0, 0))
        ELSE IF item.disk_bytenr % PageBytes # 0 THEN [res |-> "err"]
        ELSE ParseOk(ExtentKey(extent_type, item.disk_bytenr \div PageBytes), comp_type,
                     ExtentStat(item.disk_num_bytes, ram_bytes, item.num_bytes))

\* parse as the build runs it.  `hlen as u64 - 21` below zero panics in a build
\* with overflow checks and wraps in a build without them; the wrapped value
\* 2^64 + hlen - 21 is written as hlen - 21, its representative modulo 2^64,
\* and marked by res = "wrapped".
parse_built(item, overflow_checks) ==
    LET p == parse(item)
    IN  IF p.res # "underflow" THEN p
        ELSE IF overflow_checks THEN [res |-> "panic"]
        ELSE [res |-> "wrapped",
              key |-> ExtentKey("Inline", 0),
              comp |-> Compression_from_usize(item.compression),
              stat |-> ExtentStat(item.len - EXTENT_INLINE_HEADER_SIZE,
                                  item.ram_bytes, item.ram_bytes)]

(***************************************************************************)
(* The query argument and the paginated session.                           *)
(***************************************************************************)
\* IoctlSearchKey::new: the fields the search depends on
IoctlSearchKey_new(st_ino) ==
    [min_objectid |-> st_ino, max_objectid |-> st_ino,
     min_offset |-> 0, nr_items |-> U32Max]

\* Sv2Args::new.  buf holds the items of the last page load, each at the byte
\* position the kernel wrote it to.
Sv2Args_new == [key |-> IoctlSearchKey_new(0), buf_size |-> BufSize, buf |-> <<>>]

\* bytes taken by the items lo..hi of a page
RECURSIVE BytesOf(_, _, _)
BytesOf(items, lo, hi) ==
    IF lo > hi THEN 0
    ELSE IF lo = hi THEN HeaderSize + items[lo].len
    ELSE LET mid == (lo + hi) \div 2
         IN  BytesOf(items, lo, mid) + BytesOf(items, mid + 1, hi)

\* the kernel lays the returned items out back to back: header, then len bytes
Pack(items) ==
    [i \in 1..Len(items) |-> [at |-> BytesOf(items, 1, i - 1), item |-> items[i]]]

\* the index in lo..hi of the item written at byte `pos`, 0 if there is none
\* (the byte positions of a page ascend)
RECURSIVE ItemAt(_, _, _, _)
ItemAt(buf, pos, lo, hi) ==
    IF lo > hi THEN 0
    ELSE LET mid == (lo + hi) \div 2
         IN  IF buf[mid].at = pos THEN mid
             ELSE IF buf[mid].at < pos THEN ItemAt(buf, pos, mid + 1, hi)
             ELSE ItemAt(buf, pos, lo, mid - 1)

\* IoctlSearchItem::from_le_raw(&buf[pos..])
from_le_raw(buf, pos) ==
    LET i == ItemAt(buf, pos, 1, Len(buf))
    IN  IF i = 0 THEN ZeroItem ELSE buf[i].item

IterNew == [pos |-> 0, nrest_item |-> 0, last |-> FALSE]

\* a need_ioctl that does not look at `last`
need_ioctl_any(it) == it.nrest_item = 0

need_ioctl(it) == it.nrest_item = 0 /\ ~it.last

finish(it) == it.nrest_item = 0 /\ it.last

\* call_ioctl that leaves the cursor where the previous page ended
call_ioctl_keep_pos(arg, it, page) ==
    LET arg1 == [arg EXCEPT !.key.nr_items = Len(page), !.buf = Pack(page)]
    IN  [arg |-> arg1,
         it |-> [it EXCEPT !.nrest_item = arg1.key.nr_items,
                           !.last = arg1.key.nr_items <= LowWater],
         req |-> arg]

\* call_ioctl that takes only a page below the mark for the last one
call_ioctl_below(arg, it, page) ==
    LET arg1 == [arg EXCEPT !.key.nr_items = Len(page), !.buf = Pack(page)]
    IN  [arg |-> arg1,
         it |-> [it EXCEPT !.nrest_item = arg1.key.nr_items,
                           !.last = arg1.key.nr_items < LowWater,
                           !.pos = 0],
         req |-> arg]

\* Sv2ItemIter::call_ioctl when the ioctl succeeds and returns `page`: the
\* kernel writes the items to buf and their number to key.nr_items.  req is
\* the Sv2Args as the ioctl was handed it.
call_ioctl(arg, it, page) ==
    LET arg1 == [arg EXCEPT !.key.nr_items = Len(page), !.buf = Pack(page)]
    IN  [arg |-> arg1,
         it |-> [it EXCEPT !.nrest_item = arg1.key.nr_items,
                           !.last = arg1.key.nr_items <= LowWater,
                           !.pos = 0],
         req |-> arg]

\* a next that asks the follow-up page from the offset of the last record
next_same_offset(arg, it, page) ==
    LET need == need_ioctl(it)
        s == IF need THEN call_ioctl(arg, it, page)
             ELSE [arg |-> arg, it |-> it, req |-> None]
    IN  IF finish(s.it)
        THEN [arg |-> s.arg, it |-> s.it, ret |-> None, loaded |-> need, req |-> s.req]
        ELSE LET ret == from_le_raw(s.arg.buf, s.it.pos)
                 nrest == s.it.nrest_item - 1
             IN  [arg |-> IF nrest = 0
                          THEN [s.arg EXCEPT !.key.min_offset = ret.offset]
                          ELSE s.arg,
                  it |-> [s.it EXCEPT !.pos = s.it.pos + HeaderSize + ret.len,
                                      !.nrest_item = nrest],
                  ret |-> ret,
                  loaded |-> need,
                  req |-> s.req]

\* Sv2ItemIter::next; `page` is what the kernel answers if the ioctl is issued.
\* ret is None or the item; loaded tells whether the ioctl was issued, req is
\* the Sv2Args it was handed.
next(arg, it, page) ==
    LET need == need_ioctl(it)
        s == IF need THEN call_ioctl(arg, it, page)
             ELSE [arg |-> arg, it |-> it, req |-> None]
    IN  IF finish(s.it)
        THEN [arg |-> s.arg, it |-> s.it, ret |-> None, loaded |-> need, req |-> s.req]
        ELSE LET ret == from_le_raw(s.arg.buf, s.it.pos)
                 nrest == s.it.nrest_item - 1
             IN  [arg |-> IF nrest = 0
                          THEN [s.arg EXCEPT !.key.min_offset = ret.offset + 1]
                          ELSE s.arg,
                  it |-> [s.it EXCEPT !.pos = s.it.pos + HeaderSize + ret.len,
                                      !.nrest_item = nrest],
                  ret |-> ret,
                  loaded |-> need,
                  req |-> s.req]

\* a reset that asks for no more items than the low-water mark
Sv2ItemIter_new_args_low(sv2_arg) ==
    [sv2_arg EXCEPT !.key.nr_items = LowWater, !.key.min_offset = 0]

\* Sv2ItemIter::new up to its call_ioctl: the two fields it resets
Sv2ItemIter_new_args(sv2_arg) ==
    [sv2_arg EXCEPT !.key.nr_items = U32Max, !.key.min_offset = 0]

\* Sv2ItemIter::new
Sv2ItemIter_new(sv2_arg, page) ==
    call_ioctl(Sv2ItemIter_new_args(sv2_arg), IterNew, page)

\* a set_key that keeps the key of the session before
set_key_stale(arg, ino) == arg

\* Sv2Args::set_key
set_key(arg, ino) == [arg EXCEPT !.key = IoctlSearchKey_new(ino)]

\* Sv2Args::search_file: set_key, then Sv2ItemIter::new
search_file(arg, ino, page) == Sv2ItemIter_new(set_key(arg, ino), page)

\* the Sv2Args the first page load of search_file hands the ioctl
search_file_args(arg, ino) == Sv2ItemIter_new_args(set_key(arg, ino))

(***************************************************************************)
(* State.                                                                  *)
(***************************************************************************)
VARIABLES
    \* --- one query session over simulated pages (SpecPage) ---
    cuts,       \* the sizes of the consecutive pages the records are cut into
    nloads,     \* page loads issued so far
    spc,        \* "new": not opened, "iter": open, "end": next() returned None
    sarg,       \* the Sv2Args of the session
    siter,      \* the Sv2ItemIter: pos, nrest_item, last
    out,        \* logical offsets of the records next() yielded in this session
    sess,       \* sessions opened on the buffer so far; the inode of the current one
    sreq        \* the search key the last page load handed the ioctl

VARIABLES
    \* --- three partial aggregates and their merges (SpecMerge) ---
    margs,      \* <<a, b, c>>
    mout        \* <<>> or the three groupings of their merge

VARIABLES
    \* --- one record handed to the classifier (SpecParse) ---
    pitem,      \* the decoded record
    pres        \* None, or what parse returned for it

VARIABLES
    \* --- the pipeline of main() (Spec) ---
    files,      \* files[f]: the extent records of inode f, ascending offsets
    dpc,        \* directory task: "none", "read", "await", "done", "panicked",
                \* "cancelled"
    dpos,       \* entries spawned ("read") or handles awaited ("await")
    dret,       \* ret of the directory task
    fpc,        \* file task: "none", "send", "wait", "done", "panicked", "cancelled"
    fch,        \* the bounded(1) channel on which the file task gets its aggregate
    fq,         \* the file queue (ftx/frx)
    wpc,        \* worker: "recv", "iter", "wait", "exit", "panicked" (at
                \* parse().unwrap()), "failed" (panicked at a failed page load)
    wfile,      \* the entry the worker holds
    wret,       \* ret of the worker for that entry
    warg,       \* the worker's Sv2Args, reused across files
    witer,      \* the Sv2ItemIter of the current file
    wcur,       \* the (key, comp, stat) whose dedup reply the worker awaits
    eq,         \* the dedup request channel (etx/erx)
    rep,        \* rep[w]: the bounded(1) reply channel of the worker's request
    map,        \* ExtentMap::map
    epc,        \* ExtentMap::run: "run", or "done" (signal dropped)
    eret,       \* what ExtentMap::run returned
    mpc,        \* main: "run" (executor threads running), "done", "panicked"
    final,      \* final_stat
    threads,    \* executor threads that have not unwound from a panic
    \* history of the run, read by the properties only
    asked,      \* asked[k]: requests for id k the dedup actor has answered
    granted,    \* granted[k]: how many of them it answered with true
    credits     \* credits[k]: times a worker added disk/uncomp for id k

pageVars == <<cuts, nloads, spc, sarg, siter, out, sess, sreq>>

mergeVars == <<margs, mout>>

parseVars == <<pitem, pres>>

pureVars == <<mergeVars, parseVars>>

dirVars == <<dpc, dpos, dret>>

fileVars == <<fpc, fch>>

workerVars == <<wpc, wfile, wret, warg, witer, wcur>>

mapVars == <<map, epc, eret>>

mainVars == <<mpc, final, threads>>

histVars == <<asked, granted, credits>>

pipeVars == <<files, dirVars, fileVars, fq, workerVars, eq, rep, mapVars, mainVars,
              histVars>>

vars == <<pageVars, pureVars, pipeVars>>

\* the values the variables of the other specifications rest at
PageIdle ==
    /\ cuts = <<>> /\ nloads = 0 /\ spc = "off"
    /\ sarg = Sv2Args_new /\ siter = IterNew /\ out = <<>>
    /\ sess = 0 /\ sreq = None

MergeIdle == margs = <<>> /\ mout = <<>>

ParseIdle == pitem = ZeroItem /\ pres = None

PipeIdle ==
    /\ files = <<>>
    /\ dpc = <<>> /\ dpos = <<>> /\ dret = <<>>
    /\ fpc = <<>> /\ fch = <<>> /\ fq = <<>>
    /\ wpc = <<>> /\ wfile = <<>> /\ wret = <<>>
    /\ warg = <<>> /\ witer = <<>> /\ wcur = <<>>
    /\ eq = <<>> /\ rep = <<>>
    /\ map = {} /\ epc = "off" /\ eret = 0
    /\ mpc = "off" /\ final = None /\ threads = 0
    /\ asked = <<>> /\ granted = <<>> /\ credits = <<>>

(***************************************************************************)
(* SpecPage: one session whose page loads are served from a partition of   *)
(* the records of one inode into consecutive pages.                        *)
(***************************************************************************)
RECURSIVE SumTo(_, _)
SumTo(s, k) == IF k = 0 THEN 0 ELSE s[k] + SumTo(s, k - 1)

\* sizes of a simulated page: below, at and above the low-water mark
PageSizes == {1, LowWater, LowWater + 1}

Partitions == UNION {[1..n -> PageSizes] : n \in 0..MaxPages}

\* the i-th record of the inode: a Regular extent at ascending logical offsets
SimRec(i) == MkItem((i - 1) * PageBytes, FileExtentItemSize, BTRFS_FILE_EXTENT_REG,
                    0, PageBytes, i * PageBytes, PageBytes, PageBytes)

SimTotal == SumTo(cuts, Len(cuts))

\* what the k-th page load returns: the k-th page, nothing once the pages are served
SimPage(k) ==
    IF k > Len(cuts) THEN <<>>
    ELSE [i \in 1..cuts[k] |-> SimRec(SumTo(cuts, k - 1) + i)]

PageInit ==
    /\ MergeIdle
    /\ ParseIdle
    /\ PipeIdle
    /\ cuts \in Partitions
    /\ nloads = 0
    /\ spc = "new"
    /\ sarg = Sv2Args_new
    /\ siter = IterNew
    /\ out = <<>>
    /\ sess = 0
    /\ sreq = None

\* Sv2Args::search_file on the same Sv2Args, for the first inode or, when the
\* session before has ended, for the next one: the first page load succeeds
PageOpen ==
    /\ spc \in {"new", "end"}
    /\ sess < MaxSessions
    /\ LET s == search_file(sarg, sess + 1, SimPage(1))
       IN  /\ sarg' = s.arg
           /\ siter' = s.it
           /\ sreq' = s.req.key
    /\ sess' = sess + 1
    /\ nloads' = 1
    /\ out' = <<>>
    /\ spc' = "iter"
    /\ UNCHANGED <<cuts, pureVars, pipeVars>>

\* search_file whose ioctl fails: `ret.call_ioctl()?` returns the Err
PageOpenFail ==
    /\ spc \in {"new", "end"}
    /\ sess < MaxSessions
    /\ sarg' = search_file_args(sarg, sess + 1)
    /\ sreq' = search_file_args(sarg, sess + 1).key
    /\ siter' = IterNew
    /\ sess' = sess + 1
    /\ nloads' = 1
    /\ out' = <<>>
    /\ spc' = "err"
    /\ UNCHANGED <<cuts, pureVars, pipeVars>>

\* one call of next(), also after it has returned None
PageNext ==
    /\ spc \in {"iter", "end"}
    /\ LET r == next(sarg, siter, SimPage(nloads + 1))
       IN  /\ sarg' = r.arg
           /\ siter' = r.it
           /\ nloads' = IF r.loaded THEN nloads + 1 ELSE nloads
           /\ sreq' = IF r.loaded THEN r.req.key ELSE sreq
           /\ IF r.ret = None
              THEN spc' = "end" /\ out' = out
              ELSE spc' = "iter" /\ out' = Append(out, r.ret.offset)
    /\ UNCHANGED <<cuts, sess, pureVars, pipeVars>>

\* a call of next() whose page load fails: call_ioctl().unwrap() panics
PageNextFail ==
    /\ spc = "iter"
    /\ need_ioctl(siter)
    /\ sreq' = sarg.key
    /\ nloads' = nloads + 1
    /\ spc' = "panicked"
    /\ UNCHANGED <<cuts, sarg, siter, out, sess, pureVars, pipeVars>>

PageNextStep == PageOpen \/ PageOpenFail \/ PageNext \/ PageNextFail

SpecPage == PageInit /\ [][PageNextStep]_vars

\* the offsets of all records of the inode, in order
PageAll == [i \in 1..SimTotal |-> SimRec(i).offset]

\* every page but the last holds more than LowWater records
NonFinalAboveLowWater == \A k \in 1..(Len(cuts) - 1) : cuts[k] > LowWater

\* C10 as stated: for any partition of the records into consecutive pages,
\* next() has yielded exactly the records, in order, when it signals end.
C10_AnyPartition == spc = "end" => out = PageAll

\* C10, amended: next() never yields anything but the records in their order,
\* and for a partition whose pages before the last each hold more than
\* LowWater (512) records it has yielded all of them when it signals end.
C10_Pagination ==
    /\ Len(out) <= SimTotal
    /\ out = SubSeq(PageAll, 1, Len(out))
    /\ (spc = "end" /\ NonFinalAboveLowWater) => out = PageAll

\* a session over three pages, the first two above the mark, that ended
C10_Witness ==
    /\ spc = "end"
    /\ Len(cuts) = MaxPages
    /\ NonFinalAboveLowWater
    /\ nloads >= MaxPages
    /\ Len(out) > 2 * LowWater
    /\ out = PageAll

\* the number of items the last page load of the session returned
LastCount == IF nloads \in 1..Len(cuts) THEN cuts[nloads] ELSE 0

\* the number of records the page loads of the session have returned
Loaded == SumTo(cuts, IF nloads < Len(cuts) THEN nloads ELSE Len(cuts))

\* C17: after a page load that returned at most 512 items no further page load
\* is issued in the session, which ends when exactly the records loaded have
\* been yielded; after a page load that returned more than 512 items, the
\* call of next() that finds them consumed issues another page load.
C17_LowWaterEndsSession ==
    [][(spc \in {"iter", "end"} /\ sess' = sess) =>
          /\ LastCount <= LowWater => nloads' = nloads
          /\ (LastCount > LowWater /\ siter.nrest_item = 0) => nloads' = nloads + 1
          /\ Len(out') <= Loaded'
          /\ spc' = "end" =>
                /\ LastCount' <= LowWater
                /\ out' = SubSeq(PageAll, 1, Loaded')]_vars

\* a page of 513 and then a page of exactly 512: the session ended after
\* yielding both, and the third page was never asked for
C17_Witness ==
    /\ spc = "end"
    /\ Len(cuts) = 3
    /\ cuts[1] = LowWater + 1
    /\ cuts[2] = LowWater
    /\ nloads = 2
    /\ Len(out) = 2 * LowWater + 1

\* C18: a follow-up page load is issued only when the remaining-item counter
\* is 0, with the minimum logical offset one past the offset of the last
\* record yielded; the record next() then returns is the first of the new
\* page, decoded at cursor 0, with the counter at the number of items the page
\* returned less that record; no record is yielded at counter 0 without it.
C18_FollowUpLoad ==
    [][(spc = "iter" /\ sess' = sess) =>
          /\ (siter.nrest_item = 0 /\ Len(out') > Len(out)) => nloads' = nloads + 1
          /\ nloads' = nloads + 1 =>
                LET page == SimPage(nloads + 1)
                IN  /\ siter.nrest_item = 0
                    /\ Len(out) > 0
                    /\ sreq'.min_offset = out[Len(out)] + 1
                    /\ sreq'.min_objectid = sess /\ sreq'.max_objectid = sess
                    /\ spc' # "panicked" =>
                          IF page = <<>>
                          THEN /\ spc' = "end" /\ out' = out
                               /\ siter'.pos = 0 /\ siter'.nrest_item = 0
                          ELSE /\ out' = Append(out, page[1].offset)
                               /\ siter'.pos = HeaderSize + page[1].len
                               /\ siter'.nrest_item = Len(page) - 1]_vars

\* the second page load of a session returned several records and the first
\* of them has been yielded
C18_Witness ==
    /\ spc = "iter"
    /\ nloads = 2
    /\ Len(cuts) >= 2 /\ cuts[2] > 1
    /\ Len(out) = cuts[1] + 1
    /\ sreq.min_offset = out[cuts[1]] + 1
    /\ siter.nrest_item = cuts[2] - 1
    /\ siter.pos = HeaderSize + FileExtentItemSize

\* C19: search_file on a buffer earlier sessions used hands the ioctl the
\* search key of a fresh buffer (min and max object id the new inode, minimum
\* offset 0, item count at its maximum), and leaves the buffer contents as
\* they were: after a failed first page load the buffer is unchanged.
C19_OpenResetsRange ==
    [][sess' = sess + 1 =>
          /\ sreq' = [min_objectid |-> sess', max_objectid |-> sess',
                      min_offset |-> 0, nr_items |-> U32Max]
          /\ sreq' = search_file_args(Sv2Args_new, sess').key
          /\ spc' = "err" => sarg'.buf = sarg.buf]_vars

\* a second session was opened, and its page load failed, on a buffer that
\* holds the 512 records of the last page of the first session
C19_Witness ==
    /\ sess = 2
    /\ spc = "err"
    /\ Len(sarg.buf) = LowWater
    /\ sreq.min_objectid = 2
    /\ sreq.min_offset = 0
    /\ sreq.nr_items = U32Max

\* the remaining-item counter a call of next() in this state decodes at:
\* that of the page it loads, if it loads one
CounterAtDecode ==
    IF need_ioctl(siter) THEN Len(SimPage(nloads + 1)) ELSE siter.nrest_item

\* C24: in every state of a session the remaining-item counter is at least 0;
\* a call of next() decodes a record only at a positive counter, which it
\* decrements by one, and signals end only at counter 0, which it leaves;
\* a call issues at most one page load; and once next() has signalled end, a
\* further call signals end, issues no page load and changes nothing.
C24_SessionInvariants ==
    /\ [](spc \in {"iter", "end"} =>
            LET r == next(sarg, siter, SimPage(nloads + 1))
            IN  /\ siter.nrest_item >= 0
                /\ r.loaded = need_ioctl(siter)
                /\ r.ret # None =>
                      /\ CounterAtDecode > 0
                      /\ r.it.nrest_item = CounterAtDecode - 1
                /\ r.ret = None =>
                      /\ CounterAtDecode = 0
                      /\ r.it.nrest_item = 0
                /\ spc = "end" =>
                      /\ r.ret = None
                      /\ ~r.loaded
                      /\ r.arg = sarg /\ r.it = siter)
    /\ [][(spc \in {"iter", "end"} /\ sess' = sess) =>
             (/\ nloads' \in {nloads, nloads + 1}
              /\ spc = "end" =>
                    (spc' = "end" /\ nloads' = nloads /\ out' = out
                       /\ siter' = siter /\ sarg' = sarg))]_vars

\* a session that ended after a follow-up page load, with the records of
\* both pages yielded and the counter at 0
C24_Witness ==
    /\ spc = "end"
    /\ nloads = 2
    /\ Len(cuts) >= 2 /\ cuts[1] > LowWater
    /\ Len(out) = cuts[1] + cuts[2]
    /\ siter.nrest_item = 0 /\ siter.last

(***************************************************************************)
(* SpecParse: IoctlSearchItem::parse on one decoded record.                *)
(***************************************************************************)
ParseLens ==
    {0} \cup {EXTENT_INLINE_HEADER_SIZE + d : d \in (0 - MaxLenDelta)..MaxLenDelta}
        \cup {FileExtentItemSize + d : d \in (0 - MaxLenDelta)..MaxLenDelta}

\* physical byte offsets: aligned, one past and one short of an alignment
ParseBytenrs ==
    {k * PageBytes + d : k \in 0..MaxUnits, d \in {0, 1, PageBytes - 1}}

ParseItems ==
    {MkItem(0, len, ty, comp, ram, bytenr, dnb, nb) :
        len \in ParseLens, ty \in 0..MaxCode, comp \in 0..MaxCode,
        ram \in {100, 2 * PageBytes}, bytenr \in ParseBytenrs,
        dnb \in {0, PageBytes}, nb \in {0, PageBytes \div 2}}

ParseInit ==
    /\ PageIdle
    /\ MergeIdle
    /\ PipeIdle
    /\ pitem \in ParseItems
    /\ pres = None

\* item.parse() in a build with or without overflow checks
ParseApply ==
    /\ pres = None
    /\ \E overflow_checks \in BOOLEAN : pres' = parse_built(pitem, overflow_checks)
    /\ UNCHANGED <<pitem, mergeVars, pageVars, pipeVars>>

SpecParse == ParseInit /\ [][ParseApply]_vars

\* a record the decode of whose codes succeeds: Regular or Prealloc, with one
\* of the four compression codes
ParsedShared ==
    /\ pres # None
    /\ pitem.type \in {BTRFS_FILE_EXTENT_REG, BTRFS_FILE_EXTENT_PREALLOC}
    /\ pitem.compression \in 0..3

Misaligned(bytenr) == bytenr # 0 /\ bytenr % PageBytes # 0

\* C14: for a Regular or Prealloc record parse returns Err exactly when the
\* declared length is not 53, or it is 53 and the physical byte offset is
\* nonzero and not a multiple of 4096; in every other case it returns Ok.
C14_LengthAndAlignment ==
    ParsedShared =>
        /\ pres.res \in {"ok", "err"}
        /\ pres.res = "err" <=>
              \/ pitem.len # FileExtentItemSize
              \/ pitem.len = FileExtentItemSize /\ Misaligned(pitem.disk_bytenr)

\* a record of 53 bytes one byte past an allocation unit was rejected
C14_Witness ==
    /\ ParsedShared
    /\ pitem.len = FileExtentItemSize
    /\ pitem.disk_bytenr = PageBytes + 1
    /\ pres.res = "err"

\* C16: for an Inline record of any declared length, also below 21, parse
\* returns disk = length - 21 and uncompressed = referenced = ram_bytes,
\* without failing and without wrapping around.
C16_InlineAnyLength ==
    (pres # None /\ pitem.type = BTRFS_FILE_EXTENT_INLINE /\ pitem.compression \in 0..3)
        => /\ pres.res = "ok"
           /\ pres.stat.disk = pitem.len - EXTENT_INLINE_HEADER_SIZE
           /\ pres.stat.disk >= 0
           /\ pres.stat.uncomp = pitem.ram_bytes
           /\ pres.stat.refd = pitem.ram_bytes

CompressionNames == <<"None", "Zlib", "Lzo", "Zstd">>

\* C20: for a Regular or Prealloc record of 53 bytes whose physical byte
\* offset is nonzero and a multiple of 4096, parse returns the key (type of
\* the record, offset / 4096), the record's compression type, disk =
\* disk_num_bytes, uncompressed = ram_bytes and referenced = num_bytes.
C20_ExtentTriple ==
    (/\ ParsedShared
     /\ pitem.len = FileExtentItemSize
     /\ pitem.disk_bytenr # 0
     /\ pitem.disk_bytenr % PageBytes = 0)
        => /\ pres.res = "ok"
           /\ pres.key.type =
                 (IF pitem.type = BTRFS_FILE_EXTENT_REG THEN "Regular" ELSE "Prealloc")
           /\ pres.key.key * PageBytes = pitem.disk_bytenr
           /\ pres.comp = CompressionNames[pitem.compression + 1]
           /\ pres.stat.disk = pitem.disk_num_bytes
           /\ pres.stat.uncomp = pitem.ram_bytes
           /\ pres.stat.refd = pitem.num_bytes

\* a zstd Prealloc record on the second allocation unit, half of it referenced
C20_Witness ==
    /\ ParsedShared
    /\ pitem.type = BTRFS_FILE_EXTENT_PREALLOC
    /\ pitem.compression = 3
    /\ pitem.disk_bytenr = 2 * PageBytes
    /\ pitem.num_bytes = PageBytes \div 2
    /\ pitem.ram_bytes = 2 * PageBytes
    /\ pitem.disk_num_bytes = PageBytes
    /\ pres = ParseOk(ExtentKey("Prealloc", 2), "Zstd",
                      ExtentStat(PageBytes, 2 * PageBytes, PageBytes \div 2))

(***************************************************************************)
(* SpecMerge: CompsizeStat::merge on three partial aggregates.             *)
(***************************************************************************)
\* a partial aggregate with distinct amounts in its fields
MergeSample(v, w) ==
    [nfile |-> v, ninline |-> w, nref |-> v + w, nextent |-> 2 * v + w,
     prealloc |-> ExtentStat(PageBytes * v, PageBytes * w, v),
     stat |-> [i \in 1..4 |-> ExtentStat(i * v, i + w, v * w)]]

MergeSamples == {MergeSample(v, w) : v, w \in 0..MaxAmount}

MergeInit ==
    /\ PageIdle
    /\ ParseIdle
    /\ PipeIdle
    /\ margs \in MergeSamples \X MergeSamples \X MergeSamples
    /\ mout = <<>>

\* the final merges of do_direntry and main in three groupings
MergeApply ==
    /\ mout = <<>>
    /\ LET a == margs[1]
           b == margs[2]
           c == margs[3]
       IN  mout' = <<CompsizeStat_merge(CompsizeStat_merge(a, b), c),
                     CompsizeStat_merge(a, CompsizeStat_merge(b, c)),
                     CompsizeStat_merge(b, CompsizeStat_merge(a, c))>>
    /\ UNCHANGED <<margs, parseVars, pageVars, pipeVars>>

SpecMerge == MergeInit /\ [][MergeApply]_vars

\* C9: merge(merge(a,b),c), merge(a,merge(b,c)) and merge(b,merge(a,c)) are
\* equal in every field.
C9_MergeCommAssoc ==
    mout # <<>> => (mout[1] = mout[2] /\ mout[2] = mout[3])

\* three different aggregates with nonzero amounts have been merged
C9_Witness ==
    /\ mout # <<>>
    /\ margs[1] # margs[2] /\ margs[2] # margs[3] /\ margs[1] # margs[3]
    /\ mout[1].nfile > 0 /\ mout[1].stat[4].disk > 0 /\ mout[1].prealloc.uncomp > 0
    /\ mout[1] = mout[3]

(***************************************************************************)
(* Spec: the pipeline of main().                                           *)
(***************************************************************************)
Workers == 1..NWorkers

Dirs == 1..NDirs

Files == 1..MaxFiles

\* The tree main is handed: directory 1 is the argument, directory d + 1 is
\* the first entry of directory d, file f lies in directory DirOf(f).
DirOf(f) == ((f - 1) % NDirs) + 1

Entries(d) ==
    LET sub == IF d < NDirs THEN <<[kind |-> "dir", id |-> d + 1]>> ELSE <<>>
        fs == SelectSeq([f \in Files |-> f], LAMBDA f : DirOf(f) = d)
    IN  sub \o [i \in 1..Len(fs) |-> [kind |-> "file", id |-> fs[i]]]

\* The payloads a record is drawn from; the record at position i of a file
\* has logical offset (i - 1) * PageBytes.
\*   inline, 100 bytes, uncompressed              a hole
\*   Regular extent 1, 4096/4096/4096             Prealloc on extent 1, zlib code
\*   Regular extent 3, zstd, 4096 on disk, 8192 uncompressed, half referenced
ItemKinds ==
    {MkItem(0, EXTENT_INLINE_HEADER_SIZE + 100, BTRFS_FILE_EXTENT_INLINE, 0, 100, 0, 0, 0),
     MkItem(0, FileExtentItemSize, BTRFS_FILE_EXTENT_REG, 0, PageBytes, 0, 0, PageBytes),
     MkItem(0, FileExtentItemSize, BTRFS_FILE_EXTENT_REG, 0, PageBytes, PageBytes,
            PageBytes, PageBytes),
     MkItem(0, FileExtentItemSize, BTRFS_FILE_EXTENT_PREALLOC, 1, PageBytes, PageBytes,
            PageBytes, PageBytes),
     MkItem(0, FileExtentItemSize, BTRFS_FILE_EXTENT_REG, 3, 2 * PageBytes, 3 * PageBytes,
            PageBytes, PageBytes)}

FileContents ==
    UNION {{[i \in 1..n |-> [kinds[i] EXCEPT !.offset = (i - 1) * PageBytes]] :
              kinds \in [1..n -> ItemKinds]} : n \in 0..MaxRecs}

\* the physical ids the records can carry (0: the key parse gives a hole)
Keys == {k.disk_bytenr \div PageBytes : k \in ItemKinds}

\* The kernel's answer to the tree search: the records of the inodes in
\* [min_objectid, max_objectid] with offset >= min_offset in ascending order,
\* cut to nr_items items and to the items that fit buf_size.
KernelSearch(arg) ==
    LET key == arg.key
        ino == key.min_objectid
        recs == IF ino \in DOMAIN files /\ ino = key.max_objectid
                THEN SelectSeq(files[ino], LAMBDA r : r.offset >= key.min_offset)
                ELSE <<>>
        fit == {n \in 0..Len(recs) :
                  n <= key.nr_items /\ BytesOf(recs, 1, n) <= arg.buf_size}
        most == CHOOSE n \in fit : \A m \in fit : m <= n
    IN  SubSeq(recs, 1, most)

PipeInit ==
    /\ PageIdle
    /\ MergeIdle
    /\ ParseIdle
    /\ files \in [Files -> FileContents]
    /\ dpc = [d \in Dirs |-> IF d = 1 THEN "read" ELSE "none"]
    /\ dpos = [d \in Dirs |-> 0]
    /\ dret = [d \in Dirs |-> CompsizeStatDefault]
    /\ fpc = [f \in Files |-> "none"]
    /\ fch = [f \in Files |-> <<>>]
    /\ fq = <<>>
    /\ wpc = [w \in Workers |-> "recv"]
    /\ wfile = [w \in Workers |-> 0]
    /\ wret = [w \in Workers |-> CompsizeStatDefault]
    /\ warg = [w \in Workers |-> Sv2Args_new]
    /\ witer = [w \in Workers |-> IterNew]
    /\ wcur = [w \in Workers |-> None]
    /\ eq = <<>>
    /\ rep = [w \in Workers |-> <<>>]
    /\ map = {}
    /\ epc = "run"
    /\ eret = 0
    /\ mpc = "run"
    /\ final = None
    /\ threads = NThreads
    /\ asked = [k \in Keys |-> 0]
    /\ granted = [k \in Keys |-> 0]
    /\ credits = [k \in Keys |-> 0]

\* the executor threads run tasks until the shutdown channel closes
Running == mpc = "run" /\ epc = "run" /\ threads > 0

\* a task that is not spawned or whose future is dropped: it returned, it
\* panicked, or its Task handle was dropped
Gone == {"none", "done", "panicked", "cancelled"}

\* a worker whose future unwound from a panic
WorkerDead(w) == wpc[w] \in {"panicked", "failed"}

\* a file queue of which main keeps its Sender until it returns
FqClosed_main_keeps == mpc = "done"

\* a dedup request channel on which the workers hold no Sender and the
\* directory tasks drop theirs at the end of the read_dir loop
EqClosed_after_read == \A d \in Dirs : dpc[d] # "read"

\* every Sender of the file queue is dropped: main's (before the executor runs),
\* the clone each directory task and each file task owns
FqClosed ==
    /\ \A d \in Dirs : dpc[d] \in Gone
    /\ \A f \in Files : fpc[f] \in Gone

\* every Sender of the dedup request channel is dropped: main's, the clone of
\* each worker and of each directory task
EqClosed ==
    /\ \A w \in Workers : wpc[w] = "exit" \/ WorkerDead(w)
    /\ \A d \in Dirs : dpc[d] \in Gone

(* do_direntry *)
\* one turn of the read_dir loop: spawn the task of the next entry
DirSpawn(d) ==
    /\ Running
    /\ dpc[d] = "read"
    /\ dpos[d] < Len(Entries(d))
    /\ LET e == Entries(d)[dpos[d] + 1]
       IN  IF e.kind = "dir"
           THEN dpc' = [dpc EXCEPT ![e.id] = "read"] /\ fpc' = fpc
           ELSE fpc' = [fpc EXCEPT ![e.id] = "send"] /\ dpc' = dpc
    /\ dpos' = [dpos EXCEPT ![d] = dpos[d] + 1]
    /\ UNCHANGED <<files, dret, fch, fq, workerVars, eq, rep, mapVars, mainVars,
                   histVars, pageVars, pureVars>>

\* the directory is read to its end: ret = default, start on the handles
DirReadEnd(d) ==
    /\ Running
    /\ dpc[d] = "read"
    /\ dpos[d] = Len(Entries(d))
    /\ dpc' = [dpc EXCEPT ![d] = "await"]
    /\ dpos' = [dpos EXCEPT ![d] = 0]
    /\ dret' = [dret EXCEPT ![d] = CompsizeStatDefault]
    /\ UNCHANGED <<files, fileVars, fq, workerVars, eq, rep, mapVars, mainVars,
                   histVars, pageVars, pureVars>>

\* what the task behind a handle returned
HandleDone(e) == IF e.kind = "dir" THEN dpc[e.id] = "done" ELSE fpc[e.id] = "done"

HandleValue(e) == IF e.kind = "dir" THEN dret[e.id] ELSE fch[e.id][1]

\* ret.merge(handle.await) for the next handle
DirAwait(d) ==
    /\ Running
    /\ dpc[d] = "await"
    /\ dpos[d] < Len(Entries(d))
    /\ LET e == Entries(d)[dpos[d] + 1]
       IN  /\ HandleDone(e)
           /\ dret' = [dret EXCEPT ![d] = CompsizeStat_merge(dret[d], HandleValue(e))]
    /\ dpos' = [dpos EXCEPT ![d] = dpos[d] + 1]
    /\ UNCHANGED <<files, dpc, fileVars, fq, workerVars, eq, rep, mapVars, mainVars,
                   histVars, pageVars, pureVars>>

\* the task returns ret and drops its Senders
DirDone(d) ==
    /\ Running
    /\ dpc[d] = "await"
    /\ dpos[d] = Len(Entries(d))
    /\ dpc' = [dpc EXCEPT ![d] = "done"]
    /\ UNCHANGED <<files, dpos, dret, fileVars, fq, workerVars, eq, rep, mapVars, mainVars,
                   histVars, pageVars, pureVars>>

(* do_file *)
\* workers.send((entry, tx)) on the bounded file queue
FileSend(f) ==
    /\ Running
    /\ fpc[f] = "send"
    /\ Len(fq) < ChanCap
    /\ fq' = Append(fq, f)
    /\ fpc' = [fpc EXCEPT ![f] = "wait"]
    /\ UNCHANGED <<files, dirVars, fch, workerVars, eq, rep, mapVars, mainVars,
                   histVars, pageVars, pureVars>>

\* rx.recv(): the task ends with the aggregate of its file
FileRecv(f) ==
    /\ Running
    /\ fpc[f] = "wait"
    /\ fch[f] # <<>>
    /\ fpc' = [fpc EXCEPT ![f] = "done"]
    /\ UNCHANGED <<files, dirVars, fch, fq, workerVars, eq, rep, mapVars, mainVars,
                   histVars, pageVars, pureVars>>

(* ExtentMap *)
\* an insert that answers but does not store the key
insert_no_store(m, key) == [fresh |-> key \notin m, map |-> m]

\* an insert into a set that remembers the last key only
insert_last_only(m, key) == [fresh |-> key \notin m, map |-> {key}]

\* IntSet::insert: whether the key is new, and the set with the key
insert(m, key) == [fresh |-> key \notin m, map |-> m \cup {key}]

\* ExtentMap::run, one request: recv (key, tx), tx.send(map.insert(key))
ExtentMapServe ==
    /\ Running
    /\ eq # <<>>
    /\ LET req == Head(eq)
           r == insert(map, req.key)
       IN  /\ map' = r.map
           /\ rep' = [rep EXCEPT ![req.from] = <<r.fresh>>]
           /\ asked' = [asked EXCEPT ![req.key] = asked[req.key] + 1]
           /\ granted' = [granted EXCEPT ![req.key] =
                             IF r.fresh THEN granted[req.key] + 1 ELSE granted[req.key]]
    /\ eq' = Tail(eq)
    /\ UNCHANGED <<files, dirVars, fileVars, fq, workerVars, epc, eret, mainVars,
                   credits, pageVars, pureVars>>

\* recv fails once the channel is empty and closed: return map.len(); the task
\* in main then drops `signal`, which closes the shutdown channel
ExtentMapExit ==
    /\ Running
    /\ eq = <<>>
    /\ EqClosed
    /\ epc' = "done"
    /\ eret' = Cardinality(map)
    /\ UNCHANGED <<files, dirVars, fileVars, fq, workerVars, eq, rep, map, mainVars,
                   histVars, pageVars, pureVars>>

(* Worker::run *)
Bucket(comp) == Compression_as_usize(comp) + 1

\* an Inline arm that counts the record as a reference too
account_inline_ref(ret, comp, stat) ==
    [ret EXCEPT !.ninline = ret.ninline + 1,
                !.nref = ret.nref + 1,
                !.stat[Bucket(comp)] =
                    [disk |-> ret.stat[Bucket(comp)].disk + stat.disk,
                     uncomp |-> ret.stat[Bucket(comp)].uncomp + stat.uncomp,
                     refd |-> ret.stat[Bucket(comp)].refd + stat.refd]]

\* the Inline arm
account_inline(ret, comp, stat) ==
    [ret EXCEPT !.ninline = ret.ninline + 1,
                !.stat[Bucket(comp)] =
                    [disk |-> ret.stat[Bucket(comp)].disk + stat.disk,
                     uncomp |-> ret.stat[Bucket(comp)].uncomp + stat.uncomp,
                     refd |-> ret.stat[Bucket(comp)].refd + stat.refd]]

\* the Regular and Prealloc arms up to the send: ret.nref += 1
account_ref(ret) == [ret EXCEPT !.nref = ret.nref + 1]

\* arms that credit disk and uncomp whatever the reply
account_reply_always(ret, ty, comp, stat, fresh) ==
    IF ty = "Regular"
    THEN [ret EXCEPT !.stat[Bucket(comp)] =
                    [disk |-> ret.stat[Bucket(comp)].disk + stat.disk,
                     uncomp |-> ret.stat[Bucket(comp)].uncomp + stat.uncomp,
                     refd |-> ret.stat[Bucket(comp)].refd + stat.refd]]
    ELSE [ret EXCEPT !.prealloc =
                    [disk |-> ret.prealloc.disk + stat.disk,
                     uncomp |-> ret.prealloc.uncomp + stat.uncomp,
                     refd |-> ret.prealloc.refd + stat.refd]]

\* arms that add refd only when the reply is true
account_reply_refd_gated(ret, ty, comp, stat, fresh) ==
    IF ~fresh THEN ret
    ELSE IF ty = "Regular"
    THEN [ret EXCEPT !.stat[Bucket(comp)] =
                    [disk |-> ret.stat[Bucket(comp)].disk + stat.disk,
                     uncomp |-> ret.stat[Bucket(comp)].uncomp + stat.uncomp,
                     refd |-> ret.stat[Bucket(comp)].refd + stat.refd]]
    ELSE [ret EXCEPT !.prealloc =
                    [disk |-> ret.prealloc.disk + stat.disk,
                     uncomp |-> ret.prealloc.uncomp + stat.uncomp,
                     refd |-> ret.prealloc.refd + stat.refd]]

\* a Prealloc arm that targets the compression bucket like the Regular arm
account_reply_one_bucket(ret, ty, comp, stat, fresh) ==
    [ret EXCEPT !.stat[Bucket(comp)] =
                    [disk |-> IF fresh THEN ret.stat[Bucket(comp)].disk + stat.disk
                              ELSE ret.stat[Bucket(comp)].disk,
                     uncomp |-> IF fresh THEN ret.stat[Bucket(comp)].uncomp + stat.uncomp
                                ELSE ret.stat[Bucket(comp)].uncomp,
                     refd |-> ret.stat[Bucket(comp)].refd + stat.refd]]

\* arms that count a reference only when the reply is true
account_reply_nref_fresh(ret, ty, comp, stat, fresh) ==
    IF ty = "Regular"
    THEN [ret EXCEPT !.nref = IF fresh THEN ret.nref ELSE ret.nref - 1,
                     !.stat[Bucket(comp)] =
                    [disk |-> IF fresh THEN ret.stat[Bucket(comp)].disk + stat.disk
                              ELSE ret.stat[Bucket(comp)].disk,
                     uncomp |-> IF fresh THEN ret.stat[Bucket(comp)].uncomp + stat.uncomp
                                ELSE ret.stat[Bucket(comp)].uncomp,
                     refd |-> ret.stat[Bucket(comp)].refd + stat.refd]]
    ELSE [ret EXCEPT !.nref = IF fresh THEN ret.nref ELSE ret.nref - 1,
                     !.prealloc =
                    [disk |-> IF fresh THEN ret.prealloc.disk + stat.disk
                              ELSE ret.prealloc.disk,
                     uncomp |-> IF fresh THEN ret.prealloc.uncomp + stat.uncomp
                                ELSE ret.prealloc.uncomp,
                     refd |-> ret.prealloc.refd + stat.refd]]

\* the Regular and Prealloc arms after the reply `fresh`
account_reply(ret, ty, comp, stat, fresh) ==
    IF ty = "Regular"
    THEN [ret EXCEPT !.stat[Bucket(comp)] =
                    [disk |-> IF fresh THEN ret.stat[Bucket(comp)].disk + stat.disk
                              ELSE ret.stat[Bucket(comp)].disk,
                     uncomp |-> IF fresh THEN ret.stat[Bucket(comp)].uncomp + stat.uncomp
                                ELSE ret.stat[Bucket(comp)].uncomp,
                     refd |-> ret.stat[Bucket(comp)].refd + stat.refd]]
    ELSE [ret EXCEPT !.prealloc =
                    [disk |-> IF fresh THEN ret.prealloc.disk + stat.disk
                              ELSE ret.prealloc.disk,
                     uncomp |-> IF fresh THEN ret.prealloc.uncomp + stat.uncomp
                                ELSE ret.prealloc.uncomp,
                     refd |-> ret.prealloc.refd + stat.refd]]

\* rx.recv() of an entry, open, st_ino, search_file: the first page load
WorkerRecv(w) ==
    /\ Running
    /\ wpc[w] = "recv"
    /\ fq # <<>>
    /\ LET f == Head(fq)
           s == search_file(warg[w], f, KernelSearch(search_file_args(warg[w], f)))
       IN  /\ wfile' = [wfile EXCEPT ![w] = f]
           /\ warg' = [warg EXCEPT ![w] = s.arg]
           /\ witer' = [witer EXCEPT ![w] = s.it]
    /\ fq' = Tail(fq)
    /\ wret' = [wret EXCEPT ![w] = CompsizeStatDefault]
    /\ wpc' = [wpc EXCEPT ![w] = "iter"]
    /\ UNCHANGED <<files, dirVars, fileVars, wcur, eq, rep, mapVars, mainVars,
                   histVars, pageVars, pureVars>>

\* the builds that differ on the item: with and without overflow checks
Builds(item) == IF parse(item).res = "underflow" THEN BOOLEAN ELSE {TRUE}

\* one turn of the for loop: next(), parse().unwrap() and the match up to its
\* first await; after the last item ret.nfile += 1 and sender.send(ret).ok(),
\* which delivers nothing when the file task is gone.  A panic of unwrap()
\* unwinds the executor thread that polls the task.
WorkerNext(w) ==
    /\ Running
    /\ wpc[w] = "iter"
    /\ LET r == next(warg[w], witer[w], KernelSearch(warg[w]))
       IN  /\ warg' = [warg EXCEPT ![w] = r.arg]
           /\ witer' = [witer EXCEPT ![w] = r.it]
           /\ IF r.ret = None
              THEN /\ fch' = IF fpc[wfile[w]] = "wait"
                             THEN [fch EXCEPT ![wfile[w]] =
                                     <<[wret[w] EXCEPT !.nfile = wret[w].nfile + 1]>>]
                             ELSE fch
                   /\ wpc' = [wpc EXCEPT ![w] = "recv"]
                   /\ UNCHANGED <<wret, wcur, eq, threads>>
              ELSE \E overflow_checks \in Builds(r.ret) :
                   LET p == parse_built(r.ret, overflow_checks)
                   IN  IF p.res \in {"err", "panic"}
                       THEN /\ wpc' = [wpc EXCEPT ![w] = "panicked"]
                            /\ threads' = threads - 1
                            /\ UNCHANGED <<fch, wret, wcur, eq>>
                       ELSE IF p.key.type = "Inline"
                       THEN /\ wret' = [wret EXCEPT ![w] =
                                           account_inline(wret[w], p.comp, p.stat)]
                            /\ UNCHANGED <<fch, wpc, wcur, eq, threads>>
                       ELSE /\ Len(eq) < ChanCap
                            /\ wret' = [wret EXCEPT ![w] = account_ref(wret[w])]
                            /\ eq' = Append(eq, [key |-> p.key.key, from |-> w])
                            /\ wcur' = [wcur EXCEPT ![w] = p]
                            /\ wpc' = [wpc EXCEPT ![w] = "wait"]
                            /\ UNCHANGED <<fch, threads>>
    /\ UNCHANGED <<files, dirVars, fpc, fq, wfile, rep, mapVars, mpc, final,
                   histVars, pageVars, pureVars>>

\* rx.recv() of the dedup reply and the rest of the arm
WorkerReply(w) ==
    /\ Running
    /\ wpc[w] = "wait"
    /\ rep[w] # <<>>
    /\ LET fresh == Head(rep[w])
           p == wcur[w]
       IN  /\ wret' = [wret EXCEPT ![w] =
                          account_reply(wret[w], p.key.type, p.comp, p.stat, fresh)]
           /\ credits' = [credits EXCEPT ![p.key.key] =
                             IF fresh THEN credits[p.key.key] + 1 ELSE credits[p.key.key]]
    /\ rep' = [rep EXCEPT ![w] = <<>>]
    /\ wcur' = [wcur EXCEPT ![w] = None]
    /\ wpc' = [wpc EXCEPT ![w] = "iter"]
    /\ UNCHANGED <<files, dirVars, fileVars, fq, wfile, warg, witer, eq, mapVars, mainVars,
                   asked, granted, pageVars, pureVars>>

\* rx.recv() fails once the file queue is empty and closed: run returns
WorkerExit(w) ==
    /\ Running
    /\ wpc[w] = "recv"
    /\ fq = <<>>
    /\ FqClosed
    /\ wpc' = [wpc EXCEPT ![w] = "exit"]
    /\ UNCHANGED <<files, dirVars, fileVars, fq, wfile, wret, warg, witer, wcur, eq,
                   rep, mapVars, mainVars, histVars, pageVars, pureVars>>

(* main *)
\* Parallel::run returns when the shutdown channel is closed and no executor
\* thread has panicked; the final merge awaits the handle of the argument's
\* directory task and etask
MainMerge ==
    /\ mpc = "run"
    /\ epc = "done"
    /\ threads = NThreads
    /\ dpc[1] = "done"
    /\ final' = [CompsizeStat_merge(CompsizeStatDefault, dret[1]) EXCEPT !.nextent = eret]
    /\ mpc' = "done"
    /\ UNCHANGED <<threads, files, dirVars, fileVars, fq, workerVars, eq, rep, mapVars,
                   histVars, pageVars, pureVars>>

Next ==
    \/ \E d \in Dirs : DirSpawn(d) \/ DirReadEnd(d) \/ DirAwait(d) \/ DirDone(d)
    \/ \E f \in Files : FileSend(f) \/ FileRecv(f)
    \/ \E w \in Workers : WorkerRecv(w) \/ WorkerNext(w) \/ WorkerReply(w) \/ WorkerExit(w)
    \/ ExtentMapServe
    \/ ExtentMapExit
    \/ MainMerge

Spec == PipeInit /\ [][Next]_vars

\* the executor threads poll a task whenever one is ready, until the shutdown
\* channel closes: some step is taken as long as one is possible
\* the runs followed to their end: files of inline records and of Regular
\* records of extent 1, the two ways a turn of the worker loop can take (with
\* and without a request to the dedup actor, answered true and false)
LiveKinds ==
    {k \in ItemKinds :
        \/ k.type = BTRFS_FILE_EXTENT_INLINE
        \/ k.type = BTRFS_FILE_EXTENT_REG /\ k.disk_bytenr = PageBytes}

LiveInit == PipeInit /\ \A f \in Files : \A i \in 1..Len(files[f]) :
                            [files[f][i] EXCEPT !.offset = 0] \in LiveKinds

SpecLive == LiveInit /\ [][Next]_vars /\ WF_vars(Next)

(***************************************************************************)
(* SpecFail: the pipeline when page loads can fail and records can be      *)
(* malformed.  No task catches a panic: it unwinds the executor thread     *)
(* that polls the task and drops the task's future, which closes the       *)
(* channel ends the future owns and makes the await of its handle panic.   *)
(***************************************************************************)
\* a Regular extent, and three records with an unknown compression code: an
\* inline record, a hole and a Regular extent
FailKinds ==
    {MkItem(0, FileExtentItemSize, BTRFS_FILE_EXTENT_REG, 0, PageBytes, PageBytes,
            PageBytes, PageBytes),
     MkItem(0, EXTENT_INLINE_HEADER_SIZE + 100, BTRFS_FILE_EXTENT_INLINE, 4, 100, 0, 0, 0),
     MkItem(0, FileExtentItemSize, BTRFS_FILE_EXTENT_PREALLOC, 4, PageBytes, 0, 0,
            PageBytes),
     MkItem(0, FileExtentItemSize, BTRFS_FILE_EXTENT_REG, 4, PageBytes, PageBytes,
            PageBytes, PageBytes)}

FailContents ==
    UNION {{[i \in 1..n |-> [kinds[i] EXCEPT !.offset = (i - 1) * PageBytes]] :
              kinds \in [1..n -> FailKinds]} : n \in 0..MaxRecs}

\* a file of one record more than the low-water mark, inline records of 32
\* bytes: its first page load returns them all and is not taken for the last
BigFile ==
    [i \in 1..(LowWater + 1) |->
        MkItem((i - 1) * PageBytes, FileExtentItemSize, BTRFS_FILE_EXTENT_INLINE, 0,
               32, 0, 0, 0)]

\* the trees of the runs: small files of well-formed and malformed records,
\* or the big file next to empty ones
FailTrees ==
    [Files -> FailContents] \cup {[f \in Files |-> IF f = 1 THEN BigFile ELSE <<>>]}

FailInit ==
    /\ PageIdle
    /\ MergeIdle
    /\ ParseIdle
    /\ files \in FailTrees
    /\ dpc = [d \in Dirs |-> IF d = 1 THEN "read" ELSE "none"]
    /\ dpos = [d \in Dirs |-> 0]
    /\ dret = [d \in Dirs |-> CompsizeStatDefault]
    /\ fpc = [f \in Files |-> "none"]
    /\ fch = [f \in Files |-> <<>>]
    /\ fq = <<>>
    /\ wpc = [w \in Workers |-> "recv"]
    /\ wfile = [w \in Workers |-> 0]
    /\ wret = [w \in Workers |-> CompsizeStatDefault]
    /\ warg = [w \in Workers |-> Sv2Args_new]
    /\ witer = [w \in Workers |-> IterNew]
    /\ wcur = [w \in Workers |-> None]
    /\ eq = <<>>
    /\ rep = [w \in Workers |-> <<>>]
    /\ map = {}
    /\ epc = "run"
    /\ eret = 0
    /\ mpc = "run"
    /\ final = None
    /\ threads = NThreads
    /\ asked = [k \in Keys |-> 0]
    /\ granted = [k \in Keys |-> 0]
    /\ credits = [k \in Keys |-> 0]

\* rx.recv() of an entry whose first page load fails: search_file returns the
\* Err of the ioctl and the Err arm is todo!(), a panic.  entry and sender are
\* dropped with the future.
WorkerOpenFail(w) ==
    /\ Running
    /\ wpc[w] = "recv"
    /\ fq # <<>>
    /\ wfile' = [wfile EXCEPT ![w] = Head(fq)]
    /\ warg' = [warg EXCEPT ![w] = search_file_args(warg[w], Head(fq))]
    /\ fq' = Tail(fq)
    /\ wret' = [wret EXCEPT ![w] = CompsizeStatDefault]
    /\ wpc' = [wpc EXCEPT ![w] = "failed"]
    /\ threads' = threads - 1
    /\ UNCHANGED <<files, dirVars, fileVars, witer, wcur, eq, rep, mapVars, mpc, final,
                   histVars, pageVars, pureVars>>

\* a turn of the for loop whose next() finds the page consumed and whose page
\* load fails: call_ioctl().unwrap() panics, ret is dropped with the future
WorkerPageFail(w) ==
    /\ Running
    /\ wpc[w] = "iter"
    /\ need_ioctl(witer[w])
    /\ wpc' = [wpc EXCEPT ![w] = "failed"]
    /\ threads' = threads - 1
    /\ UNCHANGED <<files, dirVars, fileVars, fq, wfile, wret, warg, witer, wcur, eq, rep,
                   mapVars, mpc, final, histVars, pageVars, pureVars>>

\* the Sender on which file f awaits its aggregate was dropped unused
SenderDropped(f) == \E w \in Workers : WorkerDead(w) /\ wfile[w] = f

\* do_file panics: workers.send(..).await.unwrap() when every Receiver of the
\* file queue is dropped, rx.recv().await.unwrap() when the Sender is
FilePanic(f) ==
    /\ Running
    /\ \/ fpc[f] = "send" /\ \A w \in Workers : WorkerDead(w)
       \/ fpc[f] = "wait" /\ fch[f] = <<>> /\ SenderDropped(f)
    /\ fpc' = [fpc EXCEPT ![f] = "panicked"]
    /\ threads' = threads - 1
    /\ UNCHANGED <<files, dirVars, fch, fq, workerVars, eq, rep, mapVars, mpc, final,
                   histVars, pageVars, pureVars>>

HandleFailed(e) ==
    IF e.kind = "dir" THEN dpc[e.id] = "panicked" ELSE fpc[e.id] = "panicked"

\* the file tasks behind the handles after position i of directory d (the
\* handle of the subdirectory is the first)
LaterFiles(d, i) ==
    {Entries(d)[j].id : j \in {k \in (i + 1)..Len(Entries(d)) : Entries(d)[k].kind = "file"}}

\* handle.await of a task that panicked panics; the handles not yet awaited
\* are dropped, which cancels their tasks
DirPanic(d) ==
    /\ Running
    /\ dpc[d] = "await"
    /\ dpos[d] < Len(Entries(d))
    /\ HandleFailed(Entries(d)[dpos[d] + 1])
    /\ dpc' = [dpc EXCEPT ![d] = "panicked"]
    /\ fpc' = [f \in Files |->
                 IF f \in LaterFiles(d, dpos[d] + 1) /\ fpc[f] \in {"send", "wait"}
                 THEN "cancelled" ELSE fpc[f]]
    /\ threads' = threads - 1
    /\ UNCHANGED <<files, dpos, dret, fch, fq, workerVars, eq, rep, mapVars, mpc, final,
                   histVars, pageVars, pureVars>>

\* Parallel::run has joined the executor threads, each ended by a panic or by
\* the closed shutdown channel, and resumes the panic: final_stat is never
\* computed or printed
MainPanic ==
    /\ mpc = "run"
    /\ threads < NThreads
    /\ threads = 0 \/ epc = "done"
    /\ mpc' = "panicked"
    /\ UNCHANGED <<files, dirVars, fileVars, fq, workerVars, eq, rep, mapVars, final,
                   threads, histVars, pageVars, pureVars>>

NextFail ==
    \/ Next
    \/ \E w \in Workers : WorkerOpenFail(w) \/ WorkerPageFail(w)
    \/ \E f \in Files : FilePanic(f)
    \/ \E d \in Dirs : DirPanic(d)
    \/ MainPanic

SpecFail == FailInit /\ [][NextFail]_vars

(***************************************************************************)
(* SpecKernel: sessions whose page loads the kernel answers from the       *)
(* records of the inode, as the tree search does: the records at or after  *)
(* key.min_offset, at most key.nr_items of them and no more than fit the   *)
(* buffer, the count written back to key.nr_items.                         *)
(***************************************************************************)
\* the records of 53 bytes that fit the buffer: the capacity of a page
PerPage == BufSize \div (HeaderSize + FileExtentItemSize)

\* inodes of up to MaxFullPages pages and nothing, one record, the low-water
\* mark or one record more than it on top
KernSizes ==
    {k * PerPage + d : k \in 0..MaxFullPages, d \in {0, 1, LowWater, LowWater + 1}}

KernInit ==
    /\ MergeIdle
    /\ ParseIdle
    /\ cuts = <<>> /\ nloads = 0 /\ spc = "new"
    /\ sarg = Sv2Args_new /\ siter = IterNew /\ out = <<>>
    /\ sess = 0 /\ sreq = None
    /\ \E n \in KernSizes :
          files = [f \in Files |-> IF f = 1 THEN [i \in 1..n |-> SimRec(i)]
                                  ELSE <<SimRec(f)>>]
    /\ dpc = <<>> /\ dpos = <<>> /\ dret = <<>>
    /\ fpc = <<>> /\ fch = <<>> /\ fq = <<>>
    /\ wpc = <<>> /\ wfile = <<>> /\ wret = <<>>
    /\ warg = <<>> /\ witer = <<>> /\ wcur = <<>>
    /\ eq = <<>> /\ rep = <<>>
    /\ map = {} /\ epc = "off" /\ eret = 0
    /\ mpc = "off" /\ final = None /\ threads = 0
    /\ asked = <<>> /\ granted = <<>> /\ credits = <<>>

\* search_file for the next inode on the same Sv2Args
KernOpen ==
    /\ spc \in {"new", "end"}
    /\ sess < MaxSessions
    /\ sess + 1 \in Files
    /\ LET s == search_file(sarg, sess + 1,
                            KernelSearch(search_file_args(sarg, sess + 1)))
       IN  /\ sarg' = s.arg
           /\ siter' = s.it
           /\ sreq' = s.req.key
    /\ sess' = sess + 1
    /\ nloads' = 1
    /\ out' = <<>>
    /\ spc' = "iter"
    /\ UNCHANGED <<cuts, pureVars, pipeVars>>

\* one call of next()
KernNext ==
    /\ spc \in {"iter", "end"}
    /\ LET r == next(sarg, siter, KernelSearch(sarg))
       IN  /\ sarg' = r.arg
           /\ siter' = r.it
           /\ nloads' = IF r.loaded THEN nloads + 1 ELSE nloads
           /\ sreq' = IF r.loaded THEN r.req.key ELSE sreq
           /\ IF r.ret = None
              THEN spc' = "end" /\ out' = out
              ELSE spc' = "iter" /\ out' = Append(out, r.ret.offset)
    /\ UNCHANGED <<cuts, sess, pureVars, pipeVars>>

KernStep == KernOpen \/ KernNext

SpecKernel == KernInit /\ [][KernStep]_vars

\* the offsets of the records of the inode of the session, in order
KernAll == [i \in 1..Len(files[sess]) |-> files[sess][i].offset]

\* C25: against the kernel's tree search, with pages that hold more than 512
\* records, next() yields the records of the inode in ascending offset order,
\* each once, and signals end when and only when it has yielded them all;
\* the follow-up page loads are asked with the item count the load before
\* returned, not with the maximum.
C25_KernelPagination ==
    spc \in {"iter", "end"} =>
        /\ PerPage > LowWater
        /\ Len(out) <= Len(KernAll)
        /\ out = SubSeq(KernAll, 1, Len(out))
        /\ spc = "end" => out = KernAll
        /\ (spc = "iter" /\ out = KernAll) =>
              next(sarg, siter, KernelSearch(sarg)).ret = None
        /\ nloads >= 2 => sreq.nr_items \in (LowWater + 1)..PerPage

\* a session over two full pages and one record more has ended: three page
\* loads, the third asked with the item count of a full page
C25_Witness ==
    /\ spc = "end"
    /\ sess = 1
    /\ Len(files[1]) = 2 * PerPage + 1
    /\ nloads = 3
    /\ sreq.nr_items = PerPage
    /\ out = KernAll

(***************************************************************************)
(* What the run is expected to report, from the records themselves.        *)
(***************************************************************************)
RECURSIVE SetSum(_, _)
SetSum(S, g) ==
    IF S = {} THEN 0
    ELSE LET x == CHOOSE y \in S : TRUE IN g[x] + SetSum(S \ {x}, g)

\* the records of the run: file and position
Pos == {<<f, i>> \in Files \X (1..MaxRecs) : i <= Len(files[f])}

RecAt(p) == files[p[1]][p[2]]

IsInline(r) == r.type = BTRFS_FILE_EXTENT_INLINE

IsShared(r) == r.type \in {BTRFS_FILE_EXTENT_REG, BTRFS_FILE_EXTENT_PREALLOC}

\* a hole: no backing extent
IsHole(r) == IsShared(r) /\ r.disk_bytenr = 0

\* a Regular or Prealloc extent
IsExtent(r) == IsShared(r) /\ r.disk_bytenr # 0

IdOf(r) == r.disk_bytenr \div PageBytes

\* the physical ids of the extents the files reference
RefIds == {IdOf(RecAt(p)) : p \in {q \in Pos : IsExtent(RecAt(q))}}

RecOfId(k) == RecAt(CHOOSE p \in Pos : IsExtent(RecAt(p)) /\ IdOf(RecAt(p)) = k)

InlinePos == {p \in Pos : IsInline(RecAt(p))}

ExpectedDisk ==
    SetSum(InlinePos, [p \in InlinePos |-> RecAt(p).len - EXTENT_INLINE_HEADER_SIZE])
    + SetSum(RefIds, [k \in RefIds |-> RecOfId(k).disk_num_bytes])

ExpectedUncomp ==
    SetSum(InlinePos, [p \in InlinePos |-> RecAt(p).ram_bytes])
    + SetSum(RefIds, [k \in RefIds |-> RecOfId(k).ram_bytes])

\* the referenced value of a record: ram_bytes of an inline record, num_bytes
\* of an extent, nothing for a hole
RefdOf(r) == IF IsInline(r) THEN r.ram_bytes ELSE IF IsHole(r) THEN 0 ELSE r.num_bytes

ExpectedRefd == SetSum(Pos, [p \in Pos |-> RefdOf(RecAt(p))])

TotalDisk(st) ==
    st.prealloc.disk + st.stat[1].disk + st.stat[2].disk + st.stat[3].disk + st.stat[4].disk

TotalUncomp(st) ==
    st.prealloc.uncomp + st.stat[1].uncomp + st.stat[2].uncomp + st.stat[3].uncomp
    + st.stat[4].uncomp

TotalRefd(st) ==
    st.prealloc.refd + st.stat[1].refd + st.stat[2].refd + st.stat[3].refd + st.stat[4].refd

\* the most a single file can be credited: its inline sizes and the sizes of
\* each extent id it references, taken once
FileIds(f) == {IdOf(files[f][i]) : i \in {j \in 1..Len(files[f]) : IsExtent(files[f][j])}}

FileInline(f) == {i \in 1..Len(files[f]) : IsInline(files[f][i])}

FileDiskOnce(f) ==
    SetSum(FileInline(f),
           [i \in FileInline(f) |-> files[f][i].len - EXTENT_INLINE_HEADER_SIZE])
    + SetSum(FileIds(f), [k \in FileIds(f) |-> RecOfId(k).disk_num_bytes])

FileUncompOnce(f) ==
    SetSum(FileInline(f), [i \in FileInline(f) |-> files[f][i].ram_bytes])
    + SetSum(FileIds(f), [k \in FileIds(f) |-> RecOfId(k).ram_bytes])

\* the record the next turn of worker w's loop handles (None at the end)
Peek(w) == next(warg[w], witer[w], KernelSearch(warg[w])).ret

\* the physical ids, without 0, the key of a hole
Ids == Keys \ {0}

\* C1: the disk and uncompressed sizes of a non-inline physical id are added
\* to the totals exactly once, however many records, files or workers
\* reference it: no id is ever credited twice, and the final totals are the
\* inline sizes plus the sizes of each referenced id taken once.
C1_CreditedOnce ==
    /\ \A k \in Ids : credits[k] <= 1
    /\ \A f \in Files :
          fch[f] # <<>> =>
              /\ TotalDisk(fch[f][1]) <= FileDiskOnce(f)
              /\ TotalUncomp(fch[f][1]) <= FileUncompOnce(f)
    /\ mpc = "done" =>
          /\ \A k \in Ids : credits[k] = IF k \in RefIds THEN 1 ELSE 0
          /\ TotalDisk(final) = ExpectedDisk
          /\ TotalUncomp(final) = ExpectedUncomp

\* both files reference the same extent, one of them twice; the run is over
C1_Witness ==
    /\ mpc = "done"
    /\ \E k \in Ids :
          /\ asked[k] > MaxFiles
          /\ credits[k] = 1
          /\ \A f \in Files : \E i \in 1..Len(files[f]) :
                IsExtent(files[f][i]) /\ IdOf(files[f][i]) = k
    /\ TotalDisk(final) = PageBytes

\* C2: the dedup insert answers true iff the id was never inserted before, and
\* at most one requester ever receives true for an id: of the requests
\* answered for an id, the first and only the first got true.
C2_InsertOnce ==
    \A k \in Keys : granted[k] <= 1 /\ (asked[k] > 0 => granted[k] = 1)

\* two workers asked for the same id at the same time: the replies of both
\* are in flight, one true and one false
C2_Witness ==
    \E w1, w2 \in Workers :
        /\ wpc[w1] = "wait" /\ wpc[w2] = "wait"
        /\ wcur[w1].key.key = wcur[w2].key.key
        /\ wcur[w1].key.key \in Ids
        /\ rep[w1] = <<TRUE>> /\ rep[w2] = <<FALSE>>

\* C3: the referenced total over the four compression buckets and the prealloc
\* bucket is the sum of the referenced value of every record, whatever the
\* dedup insert answered.
C3_ReferencedTotal ==
    /\ \A f \in Files :
          fch[f] # <<>> =>
              TotalRefd(fch[f][1]) =
                  SetSum(1..Len(files[f]), [i \in 1..Len(files[f]) |-> RefdOf(files[f][i])])
    /\ mpc = "done" => TotalRefd(final) = ExpectedRefd

\* an extent referenced by both files: one insert answered false, and the
\* referenced total counts both references
C3_Witness ==
    /\ mpc = "done"
    /\ \E k \in Ids : asked[k] = MaxFiles /\ granted[k] = 1
    /\ \A f \in Files : Len(files[f]) = 1
    /\ TotalRefd(final) = MaxFiles * PageBytes
    /\ TotalDisk(final) = PageBytes

\* records sharing a physical id agree on type, compression, disk and
\* uncompressed size
Agree ==
    \A p, q \in Pos :
        (IsExtent(RecAt(p)) /\ IsExtent(RecAt(q)) /\ IdOf(RecAt(p)) = IdOf(RecAt(q)))
            => /\ RecAt(p).type = RecAt(q).type
               /\ RecAt(p).compression = RecAt(q).compression
               /\ RecAt(p).disk_num_bytes = RecAt(q).disk_num_bytes
               /\ RecAt(p).ram_bytes = RecAt(q).ram_bytes

SharedPos == {p \in Pos : IsShared(RecAt(p))}

IdsOf(S) == {IdOf(RecAt(p)) : p \in S}

\* a bucket fed by the inline records `inl` and the extent records `ext`:
\* every inline triple, the sizes of each id of `ext` once, and every
\* reference of `ext`
ExpectedBucket(inl, ext) ==
    [disk |-> SetSum(inl, [p \in inl |-> RecAt(p).len - EXTENT_INLINE_HEADER_SIZE])
              + SetSum(IdsOf(ext), [k \in IdsOf(ext) |-> RecOfId(k).disk_num_bytes]),
     uncomp |-> SetSum(inl, [p \in inl |-> RecAt(p).ram_bytes])
                + SetSum(IdsOf(ext), [k \in IdsOf(ext) |-> RecOfId(k).ram_bytes]),
     refd |-> SetSum(inl, [p \in inl |-> RecAt(p).ram_bytes])
              + SetSum(ext, [p \in ext |-> RecAt(p).num_bytes])]

ExtentPos(ty) == {p \in Pos : IsExtent(RecAt(p)) /\ RecAt(p).type = ty}

\* the aggregate as a function of the files alone; a hole counts the way
\* Worker::run counts it, as a reference to the id 0
ExpectedFinal ==
    [nfile |-> MaxFiles,
     ninline |-> Cardinality(InlinePos),
     nref |-> Cardinality(SharedPos),
     nextent |-> Cardinality(IdsOf(SharedPos)),
     prealloc |-> ExpectedBucket({}, ExtentPos(BTRFS_FILE_EXTENT_PREALLOC)),
     stat |-> [i \in 1..4 |->
                 ExpectedBucket({p \in InlinePos : RecAt(p).compression = i - 1},
                                {p \in ExtentPos(BTRFS_FILE_EXTENT_REG) :
                                    RecAt(p).compression = i - 1})]]

\* the merge of the aggregates the workers replied for the files of S
RECURSIVE MergeReplies(_)
MergeReplies(S) ==
    IF S = {} THEN CompsizeStatDefault
    ELSE LET f == CHOOSE x \in S : TRUE
         IN  CompsizeStat_merge(MergeReplies(S \ {f}), fch[f][1])

\* C11: for files in which the records sharing a physical id agree on type,
\* compression, disk and uncompressed size, the final CompsizeStat is the same
\* in every interleaving of the workers, the file tasks and the dedup actor:
\* it is a function of the files, and so are the counters of each file's
\* aggregate and the merge of the per-file aggregates once every file has
\* been replied for.
C11_OrderIndependent ==
    /\ \A f \in Files :
          fch[f] # <<>> =>
              /\ fch[f][1].nfile = 1
              /\ fch[f][1].ninline = Cardinality(FileInline(f))
              /\ fch[f][1].nref =
                    Cardinality({i \in 1..Len(files[f]) : IsShared(files[f][i])})
              /\ fch[f][1].nextent = 0
    /\ (Agree /\ \A f \in Files : fch[f] # <<>>)
          => MergeReplies(Files) = [ExpectedFinal EXCEPT !.nextent = 0]
    /\ (Agree /\ mpc = "done") => final = ExpectedFinal

\* two files of two records each, all four on extents both files reference
C11_Witness ==
    /\ mpc = "done"
    /\ Agree
    /\ final = ExpectedFinal
    /\ final.nref = MaxFiles * MaxRecs
    /\ Cardinality(RefIds) = MaxRecs
    /\ \A k \in RefIds : asked[k] = MaxFiles

\* C4: at the end nextent is the number of distinct non-inline physical
\* extent ids the files reference.
C4_NextentDistinctIds == mpc = "done" => final.nextent = Cardinality(RefIds)

\* C5: a record with physical byte offset zero causes no accounting: handling
\* it changes neither the worker's aggregate nor the dedup set, and sends the
\* dedup set nothing.
C5_HoleNoAccounting ==
    [][\A w \in Workers :
         (WorkerNext(w) /\ Peek(w) # None /\ IsHole(Peek(w)))
             => (wret'[w] = wret[w] /\ eq' = eq /\ wpc'[w] = "iter")]_vars

\* C6: nref ends as the number of Regular and Prealloc extents the files
\* touch, duplicates included; two files on one Regular extent (4096 on disk,
\* 4096 uncompressed, fully referenced) give nref 2, nextent 1, disk 4096,
\* referenced 8192.
C6_NrefCountsExtents ==
    mpc = "done" =>
        /\ final.nref = Cardinality({p \in Pos : IsExtent(RecAt(p))})
        /\ (\A f \in Files :
               /\ Len(files[f]) = 1
               /\ files[f][1].type = BTRFS_FILE_EXTENT_REG
               /\ IdOf(files[f][1]) = 1)
            => /\ final.nref = MaxFiles
               /\ final.nextent = 1
               /\ final.stat[1].disk = PageBytes
               /\ final.stat[1].refd = MaxFiles * PageBytes

\* C7: an Inline record adds one to ninline and its whole triple (len - 21,
\* ram_bytes, ram_bytes) to the bucket of its compression code, sends the
\* dedup set nothing and leaves nref, nextent and the prealloc bucket alone.
C7_InlineAccounting ==
    [][\A w \in Workers :
         (WorkerNext(w) /\ Peek(w) # None /\ IsInline(Peek(w)))
             => LET r == Peek(w)
                    b == r.compression + 1
                IN  /\ wret'[w].ninline = wret[w].ninline + 1
                    /\ wret'[w].stat[b].disk =
                          wret[w].stat[b].disk + r.len - EXTENT_INLINE_HEADER_SIZE
                    /\ wret'[w].stat[b].uncomp = wret[w].stat[b].uncomp + r.ram_bytes
                    /\ wret'[w].stat[b].refd = wret[w].stat[b].refd + r.ram_bytes
                    /\ \A i \in (1..4) \ {b} : wret'[w].stat[i] = wret[w].stat[i]
                    /\ wret'[w].nref = wret[w].nref
                    /\ wret'[w].nextent = wret[w].nextent
                    /\ wret'[w].nfile = wret[w].nfile
                    /\ wret'[w].prealloc = wret[w].prealloc
                    /\ eq' = eq /\ map' = map /\ wpc'[w] = "iter"]_vars

\* a worker has handled two inline records of 100 bytes
C7_Witness ==
    \E w \in Workers :
        /\ wret[w].ninline = MaxRecs
        /\ wret[w].stat[1] = ExtentStat(MaxRecs * 100, MaxRecs * 100, MaxRecs * 100)
        /\ wret[w].nref = 0

\* C8: a Prealloc record is accounted in the prealloc bucket only: whatever
\* its compression code and the dedup answer, handling it leaves the four
\* compression buckets unchanged.
C8_PreallocFrame ==
    [][\A w \in Workers :
         \/ (WorkerNext(w) /\ Peek(w) # None
                /\ Peek(w).type = BTRFS_FILE_EXTENT_PREALLOC)
         \/ (WorkerReply(w) /\ wcur[w].key.type = "Prealloc")
         => wret'[w].stat = wret[w].stat]_vars

\* a worker was credited a Prealloc record with the zlib code: the prealloc
\* bucket holds it, the compression buckets are empty
C8_Witness ==
    \E w \in Workers :
        /\ wpc[w] = "iter"
        /\ wret[w].nref = 1
        /\ wret[w].prealloc = ExtentStat(PageBytes, PageBytes, PageBytes)
        /\ wret[w].stat = CompsizeStatDefault.stat

(***************************************************************************)
(* Failing runs.                                                           *)
(***************************************************************************)
\* C12: once a page load has failed in a worker, on the first page of a file
\* or on a later one, and the run is over, a final result was reported (the
\* one into which the worker's partial statistics are merged).
C12_PartialStatsReported ==
    (mpc # "run" /\ \E w \in Workers : wpc[w] = "failed") => final # None

\* C13: from the moment a page load has failed in a worker, the moment the
\* cancellation signal is to be set, no further file entry is enqueued.
C13_NoEnqueueAfterFailure ==
    [][(\E w \in Workers : wpc[w] = "failed") => Len(fq') <= Len(fq)]_vars

\* the record at hand has a compression code outside 0..3
UnknownCode(w) ==
    /\ Running
    /\ wpc[w] = "iter"
    /\ Peek(w) # None
    /\ Peek(w).compression \notin 0..3

\* C15: the turn of the worker loop on a record whose compression code is not
\* one of 0..3, whatever its extent type, ends the worker in a panic and
\* updates nothing: not the worker's statistics, not the dedup queue or map,
\* not the file's channel.
C15_UnknownCompressionFatal ==
    [][\A w \in Workers :
          (UnknownCode(w) /\ WorkerNext(w)) =>
             /\ wpc'[w] = "panicked"
             /\ wret' = wret
             /\ eq' = eq
             /\ map' = map
             /\ fch' = fch]_vars

\* a worker stopped at a file that begins with an inline record of an unknown
\* code, another at a file that begins with a hole of an unknown code, both
\* with the statistics they started the file with
C15_Witness ==
    \E w1, w2 \in Workers :
        /\ wpc[w1] = "panicked" /\ wpc[w2] = "panicked"
        /\ wfile[w1] # 0 /\ wfile[w2] # 0
        /\ Len(files[wfile[w1]]) > 0 /\ Len(files[wfile[w2]]) > 0
        /\ LET a == files[wfile[w1]][1]
               b == files[wfile[w2]][1]
           IN  /\ a.type = BTRFS_FILE_EXTENT_INLINE /\ a.compression \notin 0..3
               /\ b.type = BTRFS_FILE_EXTENT_PREALLOC /\ b.compression \notin 0..3
                  /\ b.disk_bytenr = 0
        /\ wret[w1] = CompsizeStatDefault /\ wret[w2] = CompsizeStatDefault

C22_ShutdownAfterTasks ==
    epc = "done" =>
        /\ \A f \in Files : fpc[f] = "done" /\ fch[f] # <<>>
        /\ \A d \in Dirs : dpc[d] = "done"
        /\ \A w \in Workers : wpc[w] = "exit" /\ rep[w] = <<>>
        /\ fq = <<>>
        /\ eq = <<>>

\* the executor stopped after a run of two files with records
C22_Witness ==
    /\ epc = "done"
    /\ mpc = "run"
    /\ \A f \in Files : Len(files[f]) = MaxRecs /\ fpc[f] = "done"

(***************************************************************************)
(* Each file entry once.                                                   *)
(***************************************************************************)
\* the places of the entry of file f in the file queue
InQueue(f) == {i \in 1..Len(fq) : fq[i] = f}

\* the workers that received the entry of file f and have not replied
Handling(f) == {w \in Workers : wfile[w] = f /\ wpc[w] \in {"iter", "wait"}}

\* the files below directory d
SubtreeFiles(d) == {f \in Files : DirOf(f) >= d}

\* the files whose aggregates the handles directory d has awaited carry
AwaitedFiles(d) ==
    UNION {IF Entries(d)[i].kind = "file" THEN {Entries(d)[i].id}
           ELSE SubtreeFiles(Entries(d)[i].id) : i \in 1..dpos[d]}

\* C23: an entry that was sent is at exactly one place: in the queue once, or
\* with exactly one worker, or replied for with one aggregate of nfile = 1;
\* every directory task holds the merge of exactly the aggregates behind the
\* handles it awaited, and the final nfile is the number of entries sent.
C23_EachEntryOnce ==
    /\ \A f \in Files :
          /\ Cardinality(InQueue(f)) + Cardinality(Handling(f)) + Len(fch[f])
                = IF fpc[f] \in {"wait", "done"} THEN 1 ELSE 0
          /\ fch[f] # <<>> => fch[f][1].nfile = 1
    /\ \A d \in Dirs :
          dpc[d] \in {"await", "done"} =>
              /\ dret[d] = MergeReplies(AwaitedFiles(d))
              /\ dret[d].nfile = Cardinality(AwaitedFiles(d))
    /\ mpc = "done" =>
          /\ final = [MergeReplies(Files) EXCEPT !.nextent = eret]
          /\ final.nfile = Cardinality({f \in Files : fpc[f] = "done"})
          /\ final.nfile = Cardinality(Files)

\* a finished run in which each worker received the entry of one file
C23_Witness ==
    /\ mpc = "done"
    /\ final.nfile = MaxFiles
    /\ \A w \in Workers : wfile[w] # 0
    /\ \A v, w \in Workers : wfile[v] = wfile[w] => v = w

(***************************************************************************)
(* One dedup set for Regular and Prealloc.                                 *)
(***************************************************************************)
\* the ids the records of type ty reference
IdsOfType(ty) ==
    {IdOf(RecAt(p)) : p \in {q \in Pos : IsExtent(RecAt(q)) /\ RecAt(q).type = ty}}

\* the ids both a Regular and a Prealloc record reference
MixedIds == IdsOfType(BTRFS_FILE_EXTENT_REG) \cap IdsOfType(BTRFS_FILE_EXTENT_PREALLOC)

\* the disk sizes of the ids of S
DiskOfIds(S) == SetSum(S, [k \in S |-> RecOfId(k).disk_num_bytes])

\* the prealloc bucket may have been credited the Prealloc-only ids and any
\* of the mixed ones
PreallocCredits ==
    {DiskOfIds((IdsOfType(BTRFS_FILE_EXTENT_PREALLOC) \ MixedIds) \cup S) :
        S \in SUBSET MixedIds}

\* C26: the dedup set holds physical ids, whatever the type of the record
\* that asked: an id that Regular and Prealloc records share is credited its
\* disk and uncompressed size once in all, to the prealloc bucket or to a
\* compression bucket and not to both, within a file and in the final
\* result, and the final nextent counts it once.
C26_IdAloneKeyed ==
    /\ map \subseteq Keys
    /\ \A f \in Files :
          fch[f] # <<>> =>
              (TotalDisk(fch[f][1]) - fch[f][1].prealloc.disk)
                 + fch[f][1].prealloc.disk <= FileDiskOnce(f)
    /\ mpc = "done" =>
          /\ final.prealloc.disk \in PreallocCredits
          /\ TotalDisk(final) = ExpectedDisk
          /\ TotalUncomp(final) = ExpectedUncomp
          /\ map \ {0} = RefIds
          /\ final.nextent = Cardinality(map)

\* a finished run in which an id shared by a Regular and a Prealloc record
\* was credited to the prealloc bucket and to no compression bucket
C26_Witness ==
    /\ mpc = "done"
    /\ MixedIds # {}
    /\ InlinePos = {}
    /\ RefIds = MixedIds
    /\ final.prealloc.disk = DiskOfIds(MixedIds)
    /\ TotalDisk(final) = final.prealloc.disk
    /\ final.stat[1].refd > 0
====
